---- MODULE Spec2Model ----
(***************************************************************************)
(* A model of lifx_controller.py: the device registry kept in              *)
(* lifx_config.json, the retry wrapper retry_command, the verified         *)
(* operations and the command engine execute_command.  The LIFX LAN        *)
(* transport (lifxlan) is the environment: every transport call picks its  *)
(* result nondeterministically.                                            *)
(***************************************************************************)
EXTENDS Integers, Sequences, FiniteSets, TLC

\* ------------------------------------------------------------ constants
MAX_RETRIES == 3
RETRY_DELAY == 1
MaxChannel == 65535
MinKelvin == 2500
MaxKelvin == 9000
Tolerance == 100
MaxOctet == 255
MaxOctetDigits == 999
IpGroups == 4
MacGroups == 6

\* ------------------------------------------------------------ bounds
\* operations (manual save, discovery run, command) started in one behaviour
MaxOps == 1
\* devices a discovery run may return
MaxFound == 2

\* ------------------------------------------------------------ strings
\* A name is its text in lower case plus whether it was typed in capitals;
\* pad marks surrounding blanks (typed at the discovery prompt).
Name(base, caps) == [base |-> base, caps |-> caps, pad |-> FALSE]
Padded(n) == [n EXCEPT !.pad = TRUE]
EmptyName == Name("", FALSE)

\* a faulty variant: the case is kept, so names compare case-sensitively
NameLowerBug(n) == n
\* str.lower() on a name
NameLower(n) == [n EXCEPT !.caps = FALSE]

\* str.strip() on the prompt's input
Strip(n) == [n EXCEPT !.pad = FALSE]

\* truthiness of a string: non-empty
NonEmpty(n) == n.base # "" \/ n.pad

\* A MAC address string: the device it denotes, its separator, its letter
\* case and its number of two-hex-digit groups.
Mac(id, sep, upper, groups) == [id |-> id, sep |-> sep, upper |-> upper, groups |-> groups]
CanonMac(id) == Mac(id, ":", FALSE, MacGroups)

\* str.lower() on a MAC
MacLower(m) == [m EXCEPT !.upper = FALSE]

\* is_valid_mac: six groups of two hex digits separated by ':' or '-'
is_valid_mac(m) == m.groups = MacGroups /\ m.sep \in {":", "-"}

\* An IP address string: its dot-separated groups as numbers (a group that
\* is not 1..3 digits is modelled by a number above 999).
IpPatternMatches(ip) ==
    Len(ip) = IpGroups /\ \A i \in 1..Len(ip) : ip[i] \in 0..MaxOctetDigits

\* is_valid_ip
is_valid_ip(ip) ==
    IF ~IpPatternMatches(ip) THEN FALSE
    ELSE \A i \in 1..Len(ip) : 0 <= ip[i] /\ ip[i] <= MaxOctet

\* ------------------------------------------------------------ exceptions
Exc(type, msg, cause) == [type |-> type, msg |-> msg, cause |-> cause]
NoExc == Exc("none", "", "")
ControlError(msg, cause) == Exc("LifxControlError", msg, cause)

\* ------------------------------------------------------------ registry
\* self.config['devices']: a dict in insertion order, as a sequence of
\* records with distinct mac keys.
Device(mac, name, ip) == [mac |-> mac, name |-> name, ip |-> ip]
Keys(c) == {c[i].mac : i \in DOMAIN c}
IndexOfKey(c, mac) == CHOOSE i \in DOMAIN c : c[i].mac = mac

\* devices[mac] = {'name': name, 'ip': ip}
DictSet(c, mac, name, ip) ==
    IF mac \in Keys(c)
    THEN [c EXCEPT ![IndexOfKey(c, mac)] = Device(mac, name, ip)]
    ELSE Append(c, Device(mac, name, ip))

\* the name check of save_device_manually
NameExists(c, name) ==
    \E i \in DOMAIN c : NameLower(c[i].name) = NameLower(name)

\* get_device_by_name: index of the first record with that name, 0 for
\* (None, None)
\* a faulty variant: the first record is returned whatever its name
get_device_by_nameFirst(c, name) == IF c = <<>> THEN 0 ELSE 1
get_device_by_name(c, name) ==
    IF \E i \in DOMAIN c : NameLower(c[i].name) = NameLower(name)
    THEN CHOOSE i \in DOMAIN c :
            /\ NameLower(c[i].name) = NameLower(name)
            /\ \A j \in 1..(i-1) : NameLower(c[j].name) # NameLower(name)
    ELSE 0

\* ------------------------------------------------------------ the file
\* lifx_config.json: whether it exists, the device entries written so far
\* and whether the JSON text is complete (closed).
NoFile == [exists |-> FALSE, entries |-> <<>>, complete |-> FALSE]
Snapshot(c) == [exists |-> TRUE, entries |-> c, complete |-> TRUE]
Truncated == [exists |-> TRUE, entries |-> <<>>, complete |-> FALSE]
Partial(c, k) == [exists |-> TRUE, entries |-> SubSeq(c, 1, k), complete |-> FALSE]

\* json.load succeeds on the file's text
Loadable(f) == ~f.exists \/ f.complete

\* load_config
load_config(f) == IF f.exists THEN f.entries ELSE <<>>

\* ------------------------------------------------------------ inputs
DeviceIds == 1..MaxFound
Addr1 == <<10, 0, 0, 1>>
Addr2 == <<10, 0, 0, 2>>
ValidAddrs == {Addr1, Addr2}
\* an octet out of range; too few groups
BadAddrs == {<<10, 0, 0, 256>>, <<10, 0, 1>>}

\* what the user may type as a MAC: canonical, upper case with hyphens, or
\* a group short
TypedMacs ==
    {CanonMac(id) : id \in DeviceIds}
      \cup {Mac(1, "-", TRUE, MacGroups), Mac(1, ":", FALSE, MacGroups - 1)}

Lamp == Name("lamp", FALSE)
LAMP == Name("lamp", TRUE)
Desk == Name("desk", FALSE)
Hall == Name("hall", FALSE)
Attic == Name("attic", FALSE)
TypedNames == {LAMP, Desk, EmptyName}
\* the names commands are given for
CommandNames == {LAMP, Attic}
\* what the user may answer at the discovery prompt
PromptInputs == {Padded(LAMP), EmptyName, Padded(EmptyName)}

\* what get_lights may return: devices with distinct ids, each with the
\* canonical MAC the library reports and some address
FoundDevice(id, ip) == [mac |-> CanonMac(id), ip |-> ip]
FoundLists ==
    {<<>>}
      \cup {<<FoundDevice(id, ip)>> : id \in DeviceIds, ip \in ValidAddrs}
      \cup {<<FoundDevice(1, Addr2), FoundDevice(2, Addr1)>>}

\* a command-line argument: a decimal integer, or text int() rejects
IntArg(v) == [int |-> TRUE, v |-> v]
BadArg == [int |-> FALSE, v |-> 0]

BrightnessArgs ==
    {<<>>, <<IntArg(30000)>>, <<IntArg(MaxChannel + 1)>>, <<IntArg(-1)>>, <<BadArg>>}
ColorArgs ==
    {<<IntArg(1000), IntArg(2000), IntArg(3000), IntArg(2700)>>,
     <<IntArg(1000), IntArg(2000), IntArg(3000), IntArg(2000)>>,
     <<IntArg(1000), IntArg(2000), IntArg(3000), IntArg(MaxKelvin + 1)>>,
     <<IntArg(MaxChannel + 1), IntArg(2000), IntArg(3000), IntArg(2700)>>,
     <<IntArg(1000), IntArg(2000), BadArg, IntArg(2700)>>,
     <<IntArg(1000), IntArg(2000), IntArg(3000)>>}
Requests ==
    {[command |-> c, args |-> <<>>] : c \in {"on", "off", "status", "blink"}}
      \cup {[command |-> "setBrightness", args |-> a] : a \in BrightnessArgs}
      \cup {[command |-> "setColor", args |-> a] : a \in ColorArgs}

\* ------------------------------------------------------------ state
VARIABLES
    config,          \* self.config['devices']
    file,            \* lifx_config.json
    pc,              \* where the running operation is ("idle": none runs)
    saveRet,         \* the caller save_config returns to
    req,             \* execute_command's name, command and args
    key,             \* the mac execute_command resolved
    light,           \* the handle Light(mac, ip)
    func,            \* the command_func given to retry_command
    fargs,           \* its arguments
    attempt,         \* retry_command's loop variable
    last_exception,  \* retry_command's last_exception
    log,             \* the operation's transport calls and sleeps, in order
    retval,          \* what retry_command returned
    outcome,         \* the outcome messages the operation printed
    escaped,         \* the exception that left execute_command, if any
    devices,         \* execute_command's devices: what rediscovery returned
    saveArgs,        \* save_device_manually's ip, mac and name
    config0,         \* the map when the running operation started
    file0,           \* the file when the running operation started
    nOps             \* operations started

vars == <<config, file, pc, saveRet, req, key, light, func, fargs, attempt,
          last_exception, log, retval, outcome, escaped, devices, saveArgs,
          config0, file0, nOps>>

None == <<>>
NoMac == Mac(0, "", FALSE, 0)
NoLight == [mac |-> NoMac, ip |-> <<>>]
NoReq == [name |-> EmptyName, command |-> "", args |-> <<>>]
NoSaveArgs == [ip |-> <<>>, mac |-> NoMac, name |-> EmptyName]

\* a registry an earlier run may have left in the file
InitialFiles ==
    {NoFile,
     Snapshot(<<Device(CanonMac(1), Lamp, Addr1), Device(CanonMac(2), Hall, Addr2)>>)}

Init ==
    /\ file \in InitialFiles
    /\ config = load_config(file)
    /\ pc = "idle"
    /\ saveRet = "none"
    /\ req = NoReq
    /\ key = NoMac
    /\ light = NoLight
    /\ func = "none"
    /\ fargs = <<>>
    /\ attempt = 0
    /\ last_exception = NoExc
    /\ log = <<>>
    /\ retval = None
    /\ outcome = <<>>
    /\ escaped = NoExc
    /\ devices = <<>>
    /\ saveArgs = NoSaveArgs
    /\ config0 = config
    /\ file0 = file
    /\ nOps = 0

\* a new operation starts: its locals are fresh
Fresh ==
    /\ req' = NoReq
    /\ key' = NoMac
    /\ light' = NoLight
    /\ func' = "none"
    /\ fargs' = <<>>
    /\ attempt' = 0
    /\ last_exception' = NoExc
    /\ retval' = None
    /\ escaped' = NoExc

\* the registry the operation starts from
Started == config0' = config /\ file0' = file

CanStart == pc = "idle" /\ nOps < MaxOps

\* ------------------------------------------------------------ reporting
Report(kind, exc) == [kind |-> kind, exc |-> exc]

\* main's handlers: except ValueError / except Exception
MainHandler(e) ==
    IF e.type = "ValueError" THEN Report("error", e) ELSE Report("unexpected", e)

\* ------------------------------------------------------------ manual save
\* save_device_manually up to its call of save_config: the exception it
\* raises (NoExc for none) and the map it leaves
save_device_manually(c, ip, mac, name) ==
    IF ~is_valid_ip(ip) THEN
        [exc |-> Exc("ValueError", "Invalid IP address format", ""), config |-> c]
    ELSE IF ~is_valid_mac(mac) THEN
        [exc |-> Exc("ValueError", "Invalid MAC address format", ""), config |-> c]
    ELSE IF NameExists(c, name) THEN
        [exc |-> Exc("ValueError", "Device name already exists", ""), config |-> c]
    ELSE
        [exc |-> NoExc, config |-> DictSet(c, MacLower(mac), name, ip)]

SaveDeviceManually ==
    /\ CanStart
    /\ \E ip \in ValidAddrs \cup BadAddrs, mac \in TypedMacs, name \in TypedNames :
        LET r == save_device_manually(config, ip, mac, name) IN
        /\ saveArgs' = [ip |-> ip, mac |-> mac, name |-> name]
        /\ config' = r.config
        /\ log' = <<>>
        /\ IF r.exc = NoExc
           THEN /\ pc' = "save_open"
                /\ saveRet' = "manual"
                /\ outcome' = <<>>
           ELSE /\ pc' = "idle"
                /\ saveRet' = "none"
                /\ outcome' = <<MainHandler(r.exc)>>
    /\ Fresh
    /\ devices' = <<>>
    /\ Started
    /\ nOps' = nOps + 1
    /\ UNCHANGED file

\* ------------------------------------------------------------ save_config
\* execute_command's handlers: except LifxControlError / except Exception.
\* What is printed, and what leaves the function.
\* a faulty variant: only the LifxControlError handler
ExecHandlerControlOnly(e) ==
    IF e.type = "LifxControlError"
    THEN [outcome |-> <<Report("error", e)>>, escaped |-> NoExc]
    ELSE [outcome |-> <<>>, escaped |-> e]
ExecHandler(e) ==
    IF e.type = "LifxControlError"
    THEN [outcome |-> <<Report("error", e)>>, escaped |-> NoExc]
    ELSE [outcome |-> <<Report("unexpected", e)>>, escaped |-> NoExc]

\* execute_command ends on exception e
ExecRaise(e) ==
    /\ pc' = "idle"
    /\ outcome' = outcome \o ExecHandler(e).outcome
    /\ escaped' = ExecHandler(e).escaped

\* open(self.config_path, 'w'): the file is created or truncated
OpenForWrite(f) == Truncated

\* json.dump and the close that ends the with block
Dump(f, c) == Snapshot(c)

SaveOpen ==
    /\ pc = "save_open"
    /\ file' = OpenForWrite(file)
    /\ pc' = "save_dump"
    /\ UNCHANGED <<config, saveRet, req, key, light, func, fargs, attempt,
                   last_exception, log, retval, outcome, escaped, nOps,
                   devices, config0, file0, saveArgs>>

\* the write completes; control returns to save_config's caller
SaveDump ==
    /\ pc = "save_dump"
    /\ file' = Dump(file, config)
    /\ \/ /\ saveRet = "manual"
          /\ pc' = "idle"
          /\ outcome' = outcome \o <<Report("saved", NoExc)>>
       \/ /\ saveRet = "discover"
          /\ pc' = "idle"
          /\ outcome' = outcome \o <<Report("discovered", NoExc)>>
       \/ /\ saveRet = "heal"
          /\ pc' = "rebuild"
          /\ outcome' = outcome
    /\ saveRet' = "none"
    /\ UNCHANGED <<config, req, key, light, func, fargs, attempt,
                   last_exception, log, retval, escaped, nOps,
                   devices, config0, file0, saveArgs>>

\* the write fails part-way (an OSError such as a full disk): the file keeps
\* what was written, the exception reaches the caller's handler
SaveFail ==
    /\ pc = "save_dump"
    /\ \E k \in 0..Len(config) : file' = Partial(config, k)
    /\ LET e == Exc("OSError", "write failed", "") IN
       \/ /\ saveRet \in {"manual", "discover"}
          /\ pc' = "idle"
          /\ outcome' = outcome \o <<MainHandler(e)>>
          /\ escaped' = escaped
       \/ /\ saveRet = "heal"
          /\ ExecRaise(e)
    /\ saveRet' = "none"
    /\ UNCHANGED <<config, req, key, light, func, fargs, attempt,
                   last_exception, log, retval, nOps,
                   devices, config0, file0, saveArgs>>

\* ------------------------------------------------------------ discovery
\* An entry of the log: a transport call, a sleep or a call of command_func
\* (kind "invoke"); the handle's address; what was sent, slept or read
\* back; and how it ended ("ok" or the exception type raised).
EvRes(kind, ip, arg, res) == [kind |-> kind, ip |-> ip, arg |-> arg, res |-> res]
Ev(kind, ip, arg) == EvRes(kind, ip, arg, "ok")

\* line 83: the device's mac is not a key of the registry
\* a faulty variant: every device found is taken for a new one
IsNewAlways(c, d) == TRUE
IsNew(c, d) == d.mac \notin Keys(c)

\* the body of discover_devices' loop for one device and the answer typed
DiscoverOne(c, d, answer) ==
    IF IsNew(c, d)
    THEN IF NonEmpty(Strip(answer))
         THEN DictSet(c, d.mac, Strip(answer), d.ip)
         ELSE c
    ELSE c

RECURSIVE DiscoverLoop(_, _, _, _)
DiscoverLoop(c, found, answers, i) ==
    IF i > Len(found) THEN c
    ELSE DiscoverLoop(DiscoverOne(c, found[i], answers[i]), found, answers, i + 1)

\* line 88: the prompts issued, each with the device it is for and the
\* answer typed
RECURSIVE DiscoverPrompts(_, _, _, _)
DiscoverPrompts(c, found, answers, i) ==
    IF i > Len(found) THEN <<>>
    ELSE (IF IsNew(c, found[i])
          THEN <<Ev("prompt", found[i].ip, <<found[i].mac, answers[i]>>)>>
          ELSE <<>>)
            \o DiscoverPrompts(DiscoverOne(c, found[i], answers[i]), found, answers, i + 1)

\* the answers typed: one for each new device; none is read for a known one
Answers(c, found) ==
    {a \in [1..Len(found) -> PromptInputs] :
        \A i \in 1..Len(found) : ~IsNew(c, found[i]) => a[i] = EmptyName}

DiscoverDevices ==
    /\ CanStart
    /\ \E found \in FoundLists :
        \E answers \in Answers(config, found) :
            /\ devices' = found
            /\ config' = DiscoverLoop(config, found, answers, 1)
            /\ log' = <<Ev("get_lights", <<>>, <<>>)>>
                        \o DiscoverPrompts(config, found, answers, 1)
            /\ pc' = "save_open"
            /\ saveRet' = "discover"
            /\ outcome' = <<>>
    /\ Fresh
    /\ Started
    /\ saveArgs' = NoSaveArgs
    /\ nOps' = nOps + 1
    /\ UNCHANGED file

\* get_lights raises: main's handler reports it
DiscoverFails ==
    /\ CanStart
    /\ log' = <<EvRes("get_lights", <<>>, <<>>, "WorkflowException")>>
    /\ pc' = "idle"
    /\ saveRet' = "none"
    /\ outcome' = <<MainHandler(Exc("WorkflowException", "transport", ""))>>
    /\ Fresh
    /\ devices' = <<>>
    /\ Started
    /\ saveArgs' = NoSaveArgs
    /\ nOps' = nOps + 1
    /\ UNCHANGED <<config, file>>

\* ------------------------------------------------------------ a new run
\* LifxController(): a new process loads the registry from the file
Restart ==
    /\ pc = "idle"
    /\ Loadable(file)
    /\ config' = load_config(file)
    /\ log' = <<>>
    /\ outcome' = <<>>
    /\ pc' = "idle"
    /\ saveRet' = "none"
    /\ Fresh
    /\ devices' = <<>>
    /\ saveArgs' = NoSaveArgs
    /\ config0' = load_config(file)
    /\ file0' = file
    /\ UNCHANGED <<file, nOps>>

\* json.load raises on a file that is not complete JSON: the constructor
\* fails, outside main's try
RestartFails ==
    /\ pc = "idle"
    /\ ~Loadable(file)
    /\ pc' = "dead"
    /\ outcome' = <<>>
    /\ log' = <<>>
    /\ saveRet' = "none"
    /\ req' = NoReq
    /\ key' = NoMac
    /\ light' = NoLight
    /\ func' = "none"
    /\ fargs' = <<>>
    /\ attempt' = 0
    /\ last_exception' = NoExc
    /\ retval' = None
    /\ escaped' = Exc("JSONDecodeError", "load failed", "")
    /\ devices' = <<>>
    /\ saveArgs' = NoSaveArgs
    /\ Started
    /\ UNCHANGED <<config, file, nOps>>

\* ------------------------------------------------------------ transport
\* what a transport call may raise
Raises == {"WorkflowException", "ValueError", "Exception"}
TransportExc(type) == Exc(type, "transport", "")

\* Light(mac, ip)
Light(mac, ip) == [mac |-> mac, ip |-> ip]

\* the record the name resolved to (info aliases config['devices'][mac])
Info == config[IndexOfKey(config, key)]

\* ------------------------------------------------------------ execute_command
\* lines 191-197: resolve the name; build the handle
ExecuteCommand ==
    /\ CanStart
    /\ \E name \in CommandNames, r \in Requests :
        LET i == get_device_by_name(config, name) IN
        /\ req' = [name |-> name, command |-> r.command, args |-> r.args]
        /\ IF i = 0
           THEN /\ pc' = "idle"
                /\ outcome' = <<Report("notfound", NoExc)>>
                /\ key' = NoMac
                /\ light' = NoLight
           ELSE /\ pc' = "probe"
                /\ outcome' = <<>>
                /\ key' = config[i].mac
                /\ light' = Light(config[i].mac, config[i].ip)
    /\ log' = <<>>
    /\ saveRet' = "none"
    /\ func' = "none"
    /\ fargs' = <<>>
    /\ attempt' = 0
    /\ last_exception' = NoExc
    /\ retval' = None
    /\ escaped' = NoExc
    /\ devices' = <<>>
    /\ saveArgs' = NoSaveArgs
    /\ Started
    /\ nOps' = nOps + 1
    /\ UNCHANGED <<config, file>>

\* where the probe's result leads: the inner try of lines 199-202
AfterProbe(r) ==
    IF r = "ok" THEN [pc |-> "dispatch", exc |-> NoExc]
    ELSE IF r = "WorkflowException" THEN [pc |-> "rediscover", exc |-> NoExc]
    ELSE [pc |-> "idle", exc |-> TransportExc(r)]

\* light.get_label()
Probe ==
    /\ pc = "probe"
    /\ \E r \in {"ok"} \cup Raises :
        /\ log' = Append(log, EvRes("get_label", light.ip, <<>>, r))
        /\ IF AfterProbe(r).exc = NoExc
           THEN /\ pc' = AfterProbe(r).pc
                /\ UNCHANGED <<outcome, escaped>>
           ELSE ExecRaise(AfterProbe(r).exc)
    /\ UNCHANGED <<config, file, saveRet, req, key, light, func, fargs, attempt,
                   last_exception, retval, nOps,
                   devices, config0, file0, saveArgs>>

\* next((dev for dev in devices if dev.get_mac_addr() == mac), None): the
\* index of the first such device, 0 for None
\* a faulty variant: the first device returned is taken, whatever its id
FoundIndexAny(devs, mac) == IF devs = <<>> THEN 0 ELSE 1
FoundIndex(devs, mac) ==
    IF \E i \in DOMAIN devs : devs[i].mac = mac
    THEN CHOOSE i \in DOMAIN devs :
            /\ devs[i].mac = mac
            /\ \A j \in 1..(i-1) : devs[j].mac # mac
    ELSE 0

\* lines 208-209: info['ip'] = found_device.get_ip_addr()
\* a faulty variant: the stored address is left as it was
UpdateIpNot(c, mac, ip) == c
\* a faulty variant: every record gets the new address
UpdateIpAll(c, mac, ip) == [i \in DOMAIN c |-> [c[i] EXCEPT !.ip = ip]]
UpdateIp(c, mac, ip) == [c EXCEPT ![IndexOfKey(c, mac)].ip = ip]

\* lines 203-214: rediscovery after a failed probe
Rediscover ==
    /\ pc = "rediscover"
    /\ log' = Append(log, Ev("get_lights", <<>>, <<>>))
    /\ \E found \in FoundLists :
        LET i == FoundIndex(found, key) IN
        /\ devices' = found
        /\ IF i # 0
           THEN /\ config' = UpdateIp(config, key, found[i].ip)
                /\ pc' = "save_open"
                /\ saveRet' = "heal"
                /\ UNCHANGED <<outcome, escaped>>
           ELSE /\ ExecRaise(ControlError("Could not find device on the network", ""))
                /\ UNCHANGED <<config, saveRet>>
    /\ UNCHANGED <<file, req, key, light, func, fargs, attempt,
                   last_exception, retval, nOps, config0, file0, saveArgs>>

\* get_lights raises inside the except block: the outer handler takes it
RediscoverFails ==
    /\ pc = "rediscover"
    /\ log' = Append(log, EvRes("get_lights", <<>>, <<>>, "WorkflowException"))
    /\ ExecRaise(TransportExc("WorkflowException"))
    /\ UNCHANGED <<config, file, saveRet, req, key, light, func, fargs, attempt,
                   last_exception, retval, nOps,
                   devices, config0, file0, saveArgs>>

\* line 212: light = Light(mac, info['ip'])
Rebuild(l, mac, ip) == Light(mac, ip)

RebuildHandle ==
    /\ pc = "rebuild"
    /\ light' = Rebuild(light, key, Info.ip)
    /\ pc' = "dispatch"
    /\ UNCHANGED <<config, file, saveRet, req, key, func, fargs, attempt,
                   last_exception, log, retval, outcome, escaped, nOps,
                   devices, config0, file0, saveArgs>>

\* ------------------------------------------------------------ validation
InRange(x, lo, hi) == lo <= x /\ x <= hi

\* lines 221-229: the setBrightness branch up to execute_brightness_command
ValidateBrightness(args) ==
    IF Len(args) = 0 THEN
        [exc |-> ControlError("Brightness value (0-65535) required.", ""), fargs |-> <<>>]
    ELSE IF ~args[1].int THEN
        [exc |-> ControlError("invalid literal for int()", ""), fargs |-> <<>>]
    ELSE IF ~InRange(args[1].v, 0, MaxChannel) THEN
        [exc |-> ControlError("Brightness must be between 0 and 65535", ""), fargs |-> <<>>]
    ELSE [exc |-> NoExc, fargs |-> <<args[1].v>>]

\* lines 231-244: the setColor branch up to execute_color_command
\* a faulty variant: the kelvin range is not checked
ValidateColorNoKelvin(args) ==
    IF Len(args) < 4 THEN
        [exc |-> ControlError("Color requires 4 values", ""), fargs |-> <<>>]
    ELSE IF \E i \in 1..4 : ~args[i].int THEN
        [exc |-> ControlError("invalid literal for int()", ""), fargs |-> <<>>]
    ELSE IF ~\A i \in 1..3 : InRange(args[i].v, 0, MaxChannel) THEN
        [exc |-> ControlError("Hue, saturation, and brightness must be between 0 and 65535", ""),
         fargs |-> <<>>]
    ELSE [exc |-> NoExc, fargs |-> <<args[1].v, args[2].v, args[3].v, args[4].v>>]
ValidateColor(args) ==
    IF Len(args) < 4 THEN
        [exc |-> ControlError("Color requires 4 values", ""), fargs |-> <<>>]
    ELSE IF \E i \in 1..4 : ~args[i].int THEN
        [exc |-> ControlError("invalid literal for int()", ""), fargs |-> <<>>]
    ELSE IF ~\A i \in 1..3 : InRange(args[i].v, 0, MaxChannel) THEN
        [exc |-> ControlError("Hue, saturation, and brightness must be between 0 and 65535", ""),
         fargs |-> <<>>]
    ELSE IF ~InRange(args[4].v, MinKelvin, MaxKelvin) THEN
        [exc |-> ControlError("Kelvin must be between 2500 and 9000", ""), fargs |-> <<>>]
    ELSE [exc |-> NoExc, fargs |-> <<args[1].v, args[2].v, args[3].v, args[4].v>>]

\* lines 216-255: the command chain; the verified operation it hands to
\* retry_command, or the control error it raises
DispatchCommand(command, args) ==
    IF command = "on" THEN [exc |-> NoExc, func |-> "power", fargs |-> <<1>>]
    ELSE IF command = "off" THEN [exc |-> NoExc, func |-> "power", fargs |-> <<0>>]
    ELSE IF command = "setBrightness" THEN
        [exc |-> ValidateBrightness(args).exc, func |-> "brightness",
         fargs |-> ValidateBrightness(args).fargs]
    ELSE IF command = "setColor" THEN
        [exc |-> ValidateColor(args).exc, func |-> "color",
         fargs |-> ValidateColor(args).fargs]
    ELSE IF command = "status" THEN [exc |-> NoExc, func |-> "status", fargs |-> <<>>]
    ELSE [exc |-> ControlError("Unknown command", ""), func |-> "none", fargs |-> <<>>]

Dispatch ==
    /\ pc = "dispatch"
    /\ LET d == DispatchCommand(req.command, req.args) IN
       IF d.exc = NoExc
       THEN /\ func' = d.func
            /\ fargs' = d.fargs
            /\ pc' = "retry"
            /\ UNCHANGED <<outcome, escaped>>
       ELSE /\ ExecRaise(d.exc)
            /\ UNCHANGED <<func, fargs>>
    /\ attempt' = 0
    /\ last_exception' = NoExc
    /\ UNCHANGED <<config, file, saveRet, req, key, light, log, retval, nOps,
                   devices, config0, file0, saveArgs>>

\* ------------------------------------------------------------ verified operations
Abs(x) == IF x < 0 THEN -x ELSE x
VerifyFailed(msg) == Exc("WorkflowException", msg, "")

\* bool(current_power) != bool(state)
\* a faulty variant: the values are compared, not their truth values
PowerVerifyExact(current, state) ==
    IF current # state THEN VerifyFailed("Power state verification failed")
    ELSE NoExc
PowerVerify(current, state) ==
    IF (current # 0) # (state # 0) THEN VerifyFailed("Power state verification failed")
    ELSE NoExc

\* abs(current_brightness - level) > 100
\* a faulty variant: a difference of exactly 100 fails
BrightnessVerifyStrict(current, level) ==
    IF Abs(current - level) >= Tolerance THEN VerifyFailed("Brightness verification failed")
    ELSE NoExc
BrightnessVerify(current, level) ==
    IF Abs(current - level) > Tolerance THEN VerifyFailed("Brightness verification failed")
    ELSE NoExc

\* any(abs(current - target) > 100 ...) over the four components
ColorVerify(current, target) ==
    IF \E i \in 1..4 : Abs(current[i] - target[i]) > Tolerance
    THEN VerifyFailed("Color verification failed")
    ELSE NoExc

\* what the device may report back
Channel == 0..MaxChannel
PowerReadbacks == {0, MaxChannel}
NearLevels(l) == {l - 101, l - 100, l + 50, l + 100, l + 150} \cap Channel
StatusColor == <<1000, 2000, 3000, 2700>>
ColorReadbacks(t) ==
    {t, [t EXCEPT ![1] = t[1] + 100], [t EXCEPT ![4] = t[4] + 101]}

\* One call of a command_func: the transport calls it makes in order (a
\* call's arg holds what was sent, or what was read back), the exception it
\* ends with (NoExc for none) and its return value.
Try(calls, exc, ret) == [calls |-> calls, exc |-> exc, ret |-> ret]
Settle == Ev("settle", <<>>, <<>>)

\* power_command, lines 145-151
power_command(h, state) ==
    LET set == Ev("set_power", h.ip, <<state>>) IN
    {Try(<<[set EXCEPT !.res = r]>>, TransportExc(r), None) : r \in Raises}
      \cup {Try(<<set, Settle, EvRes("get_power", h.ip, <<>>, r)>>, TransportExc(r), None) :
                r \in Raises}
      \cup {Try(<<set, Settle, Ev("get_power", h.ip, <<v>>)>>, PowerVerify(v, state), None) :
                v \in PowerReadbacks}

\* brightness_command, lines 157-163
brightness_command(h, level) ==
    LET set == Ev("set_brightness", h.ip, <<level>>) IN
    {Try(<<[set EXCEPT !.res = r]>>, TransportExc(r), None) : r \in Raises}
      \cup {Try(<<set, Settle, EvRes("get_color", h.ip, <<>>, r)>>, TransportExc(r), None) :
                r \in Raises}
      \cup {Try(<<set, Settle, Ev("get_color", h.ip, <<v>>)>>, BrightnessVerify(v, level), None) :
                v \in NearLevels(level)}

\* color_command, lines 169-176
color_command(h, target) ==
    LET set == Ev("set_color", h.ip, target) IN
    {Try(<<[set EXCEPT !.res = r]>>, TransportExc(r), None) : r \in Raises}
      \cup {Try(<<set, Settle, EvRes("get_color", h.ip, <<>>, r)>>, TransportExc(r), None) :
                r \in Raises}
      \cup {Try(<<set, Settle, Ev("get_color", h.ip, v)>>, ColorVerify(v, target), None) :
                v \in ColorReadbacks(target)}

\* status_command, lines 182-185
\* a faulty variant: status switches the light on
status_commandSets(h) ==
    {Try(<<Ev("set_power", h.ip, <<1>>)>> \o <<EvRes("get_power", h.ip, <<>>, r)>>,
         TransportExc(r), None) : r \in Raises}
      \cup {Try(<<Ev("set_power", h.ip, <<1>>), Ev("get_power", h.ip, <<p>>),
                  Ev("get_color", h.ip, StatusColor)>>,
                NoExc, <<p, StatusColor>>) : p \in PowerReadbacks}
status_command(h) ==
    {Try(<<EvRes("get_power", h.ip, <<>>, r)>>, TransportExc(r), None) : r \in Raises}
      \cup {Try(<<Ev("get_power", h.ip, <<p>>), EvRes("get_color", h.ip, <<>>, r)>>,
                TransportExc(r), None) : r \in Raises, p \in PowerReadbacks}
      \cup {Try(<<Ev("get_power", h.ip, <<p>>), Ev("get_color", h.ip, StatusColor)>>,
                NoExc, <<p, StatusColor>>) : p \in PowerReadbacks}

\* command_func(light, *args)
command_func(f, h, a) ==
    IF f = "power" THEN power_command(h, a[1])
    ELSE IF f = "brightness" THEN brightness_command(h, a[1])
    ELSE IF f = "color" THEN color_command(h, a)
    ELSE status_command(h)

\* ------------------------------------------------------------ retry_command
RECURSIVE Pow2(_)
Pow2(n) == IF n = 0 THEN 1 ELSE 2 * Pow2(n - 1)

\* a faulty variant: linear backoff
BackoffDelayLinear(a) == RETRY_DELAY * (a + 1)
\* RETRY_DELAY * (2 ** attempt)
BackoffDelay(a) == RETRY_DELAY * Pow2(a)

\* lines 124-126: the sleep that opens attempt a (0-based)
SleepBefore(a) ==
    IF a > 0 THEN <<Ev("sleep", <<>>, <<BackoffDelay(a)>>)>> ELSE <<>>

\* range(MAX_RETRIES): the loop has another attempt
\* a faulty variant: one attempt too many
MoreAttemptsOneExtra(a) == a <= MAX_RETRIES
MoreAttempts(a) == a < MAX_RETRIES

\* the except clauses of lines 128-139: what an exception of the attempt
\* leads to
\* a faulty variant: every exception is retried
ClassifyRetryAll(e) ==
    IF e.type = "none" THEN "return" ELSE "retry"
Classify(e) ==
    IF e.type = "none" THEN "return"
    ELSE IF e.type = "WorkflowException" THEN "retry"
    ELSE "raise"

\* the control error raised for a non-transport exception
Wrap(e) ==
    IF e.type = "ValueError" THEN ControlError("Invalid parameter", e.msg)
    ELSE ControlError("Unexpected error", e.msg)

\* line 141
Exhausted(last) == ControlError("Failed after 3 attempts", last.msg)

\* lines 132-135: light.refresh() with its failure swallowed; the exception
\* that leaves the handler
\* a faulty variant: a failed refresh is not swallowed
RefreshPropagates(r) == IF r = "ok" THEN NoExc ELSE TransportExc(r)
Refresh(r) == NoExc

\* one pass of the loop body, lines 123-139
RetryAttempt ==
    /\ pc = "retry"
    /\ MoreAttempts(attempt)
    /\ \E o \in command_func(func, light, fargs) :
        LET ended == IF o.exc = NoExc THEN "ok" ELSE o.exc.type
            done == log \o SleepBefore(attempt)
                        \o <<EvRes("invoke", light.ip, <<attempt + 1>>, ended)>>
                        \o o.calls
        IN
        \/ /\ Classify(o.exc) = "return"
           /\ log' = done
           /\ retval' = o.ret
           /\ pc' = "idle"
           /\ outcome' = outcome \o <<Report("success", NoExc)>>
           /\ UNCHANGED <<attempt, last_exception, escaped>>
        \/ /\ Classify(o.exc) = "retry"
           /\ last_exception' = o.exc
           /\ log' = Append(done, EvRes("refresh", light.ip, <<>>, "swallowed"))
           /\ \E r \in {"ok"} \cup Raises :
                IF Refresh(r) = NoExc
                THEN /\ attempt' = attempt + 1
                     /\ UNCHANGED <<pc, outcome, escaped>>
                ELSE /\ ExecRaise(Refresh(r))
                     /\ UNCHANGED attempt
           /\ UNCHANGED retval
        \/ /\ Classify(o.exc) = "raise"
           /\ log' = done
           /\ ExecRaise(Wrap(o.exc))
           /\ UNCHANGED <<attempt, last_exception, retval>>
    /\ UNCHANGED <<config, file, saveRet, req, key, light, func, fargs, nOps,
                   devices, config0, file0, saveArgs>>

\* line 141: the loop ended without a return
RetryExhausted ==
    /\ pc = "retry"
    /\ ~MoreAttempts(attempt)
    /\ ExecRaise(Exhausted(last_exception))
    /\ UNCHANGED <<config, file, saveRet, req, key, light, func, fargs, attempt,
                   last_exception, log, retval, nOps,
                   devices, config0, file0, saveArgs>>

\* ------------------------------------------------------------ specification
Next ==
    \/ SaveDeviceManually
    \/ DiscoverDevices
    \/ DiscoverFails
    \/ SaveOpen
    \/ SaveDump
    \/ SaveFail
    \/ Restart
    \/ RestartFails
    \/ ExecuteCommand
    \/ Probe
    \/ Rediscover
    \/ RediscoverFails
    \/ RebuildHandle
    \/ Dispatch
    \/ RetryAttempt
    \/ RetryExhausted

Spec == Init /\ [][Next]_vars


\* ------------------------------------------------------------ properties
\* What the properties read off the state.  The log is the log of the
\* operation that runs, or of the last one that ran.
Positions(kind) == {i \in DOMAIN log : log[i].kind = kind}
Invokes == Positions("invoke")
TransportFailures == {i \in Invokes : log[i].res = "WorkflowException"}
LastInvoke == CHOOSE i \in Invokes : \A j \in Invokes : j <= i
OperationReturned == \E i \in Invokes : log[i].res = "ok"
\* retry_command was entered and execute_command has ended
RetryEnded == pc = "idle" /\ func # "none"
\* an execute_command runs or was the last operation
InExecute == req # NoReq
SameNameIgnoringCase(a, b) == a.base = b.base
OperationCalls == {"set_power", "get_power", "set_brightness", "set_color", "get_color"}
TransportCalls == OperationCalls \cup {"get_label", "get_lights", "refresh"}

\* C1: a wrapped operation that fails with a transport error k < 3 times and
\* then succeeds is invoked exactly k+1 times and its result is returned; one
\* that fails with a transport error on every invocation is invoked exactly
\* 3 times, after which a control error wrapping the last transport error is
\* raised.
C1_RetryCounts ==
    LET calls == Cardinality(Invokes) IN
    /\ calls <= 3
    /\ RetryEnded =>
        /\ log[LastInvoke].res = "ok" =>
            /\ calls = Cardinality(TransportFailures) + 1
            /\ Cardinality(TransportFailures) < 3
            /\ outcome = <<Report("success", NoExc)>>
            /\ IF func = "status"
               THEN retval = <<log[Len(log) - 1].arg[1], log[Len(log)].arg>>
               ELSE retval = None
        /\ TransportFailures = Invokes =>
            /\ calls = 3
            /\ Len(outcome) = 1
            /\ outcome[1].kind = "error"
            /\ outcome[1].exc.type = "LifxControlError"
            /\ outcome[1].exc.msg = "Failed after 3 attempts"
            /\ last_exception.type = "WorkflowException"
            /\ outcome[1].exc.cause = last_exception.msg
            /\ log[Len(log) - 1].res = "WorkflowException"
                  => outcome[1].exc.cause = "transport"

\* two transport errors, then success on the third invocation
C1_Witness ==
    /\ RetryEnded
    /\ log[LastInvoke].res = "ok"
    /\ Cardinality(TransportFailures) = 2

\* the parameter contract of setBrightness and setColor
ContractViolated(r) ==
    \/ /\ r.command = "setBrightness"
       /\ \/ Len(r.args) = 0
          \/ ~r.args[1].int
          \/ r.args[1].v \notin 0..65535
    \/ /\ r.command = "setColor"
       /\ \/ Len(r.args) < 4
          \/ \E i \in 1..4 : ~r.args[i].int
          \/ \E i \in 1..3 : r.args[i].v \notin 0..65535
          \/ r.args[4].v \notin 2500..9000

\* C2: a setBrightness or setColor command whose parameters violate their
\* contract is rejected with a control error and no transport call of any
\* kind has been made for it.
C2_ValidatedBeforeTransport ==
    (InExecute /\ key # NoMac /\ ContractViolated(req)) =>
        /\ \A i \in DOMAIN log : log[i].kind \notin TransportCalls
        /\ pc = "idle" =>
            /\ Len(outcome) = 1
            /\ outcome[1].kind = "error"
            /\ outcome[1].exc.type = "LifxControlError"

\* C3: no two device records share an id, and no two share a name compared
\* case-insensitively.
C3_UniqueIdsAndNames ==
    \A i, j \in DOMAIN config :
        i # j =>
            /\ config[i].mac # config[j].mac
            /\ ~SameNameIgnoringCase(config[i].name, config[j].name)

\* C4: a snapshot persisted before an operation is never corrupted by a
\* save: at every point of save_config the file is the complete previous
\* snapshot or the complete new snapshot of the in-memory map, never an empty
\* or partial one.
C4_AtomicSave ==
    (file0.exists /\ file0.complete) =>
        /\ file.exists /\ file.complete
        /\ file = file0 \/ file = Snapshot(config)

\* C5: a non-transport error raised by the operation ends retry_command with
\* a control error at once: no further invocation, sleep or refresh follows,
\* and on the first attempt there are no retries and no sleep at all.
NonTransportAt(i) == log[i].res \notin {"ok", "WorkflowException"}
C5_NoRetryOnOtherErrors ==
    \A i \in Invokes :
        NonTransportAt(i) =>
            /\ pc = "idle"
            /\ outcome =
                <<Report("error",
                         ControlError(IF log[i].res = "ValueError"
                                      THEN "Invalid parameter" ELSE "Unexpected error",
                                      "transport"))>>
            /\ \A j \in (i + 1)..Len(log) : log[j].kind \notin {"invoke", "sleep", "refresh"}
            /\ log[i].arg = <<1>> =>
                /\ Invokes = {i}
                /\ Positions("sleep") = {}
                /\ Positions("refresh") = {}

\* an invalid-parameter error on the first attempt
C5_Witness ==
    \E i \in Invokes : log[i].res = "ValueError" /\ log[i].arg = <<1>>

\* C6: no sleep precedes attempt 1; the sleep right before attempt n > 1 is
\* RETRY_DELAY * 2^(n-1) (2 before attempt 2, 4 before attempt 3); the
\* delays are strictly increasing.
C6_Backoff ==
    LET sleeps == Positions("sleep") IN
    /\ \A i \in Invokes :
        LET n == log[i].arg[1] IN
        /\ n = 1 => \A j \in 1..i : log[j].kind # "sleep"
        /\ n > 1 =>
            /\ log[i - 1].kind = "sleep"
            /\ log[i - 1].arg = <<RETRY_DELAY * 2^(n - 1)>>
            /\ n = 2 => log[i - 1].arg = <<2>>
            /\ n = 3 => log[i - 1].arg = <<4>>
    /\ \A j \in sleeps : j < Len(log) /\ log[j + 1].kind = "invoke"
    /\ \A j, k \in sleeps : j < k => log[j].arg[1] < log[k].arg[1]

\* a third attempt was made
C6_Witness == \E i \in Invokes : log[i].arg = <<3>>

\* the probe failed with a transport error and rediscovery returned a list
ProbeFailed ==
    /\ Len(log) >= 1
    /\ log[1].kind = "get_label"
    /\ log[1].res = "WorkflowException"
Rediscovered ==
    /\ ProbeFailed
    /\ Len(log) >= 2
    /\ log[2].kind = "get_lights"
    /\ log[2].res = "ok"
MatchAt == {i \in DOMAIN devices : devices[i].mac = key}
NewAddr == devices[CHOOSE i \in MatchAt : TRUE].ip
\* save_config has returned to execute_command
HealSaved ==
    \/ pc \in {"rebuild", "dispatch", "retry"}
    \/ pc = "idle" /\ (Len(outcome) = 1 => outcome[1].exc.type # "OSError")

\* C7: when the probe fails with a transport error and rediscovery returns
\* the device's id at a new address, the stored address becomes that address
\* and is persisted, the handle is rebuilt with it, the command runs against
\* the rebuilt handle and succeeds when the device accepts and confirms it.
C7_SelfHealing ==
    (InExecute /\ Rediscovered /\ MatchAt # {}) =>
        /\ \A i \in DOMAIN config : config[i].mac = key => config[i].ip = NewAddr
        /\ \E i \in DOMAIN config : config[i].mac = key
        /\ HealSaved => file = Snapshot(config)
        /\ (pc \in {"dispatch", "retry"} \/ func # "none") => light = Light(key, NewAddr)
        /\ \A i \in 3..Len(log) :
            log[i].kind \in OperationCalls \cup {"invoke", "refresh"} => log[i].ip = NewAddr
        /\ (pc = "idle" /\ OperationReturned) => outcome = <<Report("success", NoExc)>>
        /\ (req.command = "setColor" /\ OperationReturned) =>
            /\ \A i \in Positions("set_color") :
                log[i].arg = <<req.args[1].v, req.args[2].v, req.args[3].v, req.args[4].v>>
            /\ log[Len(log) - 2].kind = "set_color"

\* setColor 1000,2000,3000,2700 succeeded on a device healed to another address
C7_Witness ==
    /\ InExecute /\ Rediscovered /\ MatchAt # {}
    /\ pc = "idle"
    /\ NewAddr # log[1].ip
    /\ req.command = "setColor"
    /\ fargs = <<1000, 2000, 3000, 2700>>
    /\ outcome = <<Report("success", NoExc)>>

\* C8: when the probe fails with a transport error and rediscovery returns
\* no device with the registered id, execute_command ends with the control
\* error "not found on the network", the registry in memory and on file is
\* unchanged and no power, brightness, color or status call is made.
C8_NotFoundOnNetwork ==
    (InExecute /\ Rediscovered /\ MatchAt = {}) =>
        /\ pc = "idle"
        /\ outcome =
            <<Report("error", ControlError("Could not find device on the network", ""))>>
        /\ config = config0
        /\ file = file0
        /\ \A i \in DOMAIN log : log[i].kind \notin OperationCalls \cup {"invoke"}

\* rediscovery found only another device
C8_Witness == InExecute /\ Rediscovered /\ MatchAt = {} /\ devices # <<>>

\* a manual save whose name is already in the registry it started from
ManualSave == saveArgs # NoSaveArgs
DuplicateName ==
    \E i \in DOMAIN config0 : SameNameIgnoringCase(config0[i].name, saveArgs.name)
RegistryUnchanged == config = config0 /\ file = file0

\* C9 as claimed: a manual save with a name that equals an existing name,
\* ignoring case, raises the duplicate-name error and leaves the registry
\* unchanged in memory and on file.
C9_DuplicateNameError ==
    (ManualSave /\ DuplicateName) =>
        /\ pc = "idle"
        /\ outcome = <<Report("error", Exc("ValueError", "Device name already exists", ""))>>
        /\ RegistryUnchanged

\* C9 amended: such a save raises a validation error and leaves the registry
\* unchanged in memory and on file; the error is the duplicate-name error
\* when the ip and the mac are well-formed.
C9_DuplicateNameRejected ==
    (ManualSave /\ DuplicateName) =>
        /\ pc = "idle"
        /\ RegistryUnchanged
        /\ Len(outcome) = 1
        /\ outcome[1].kind = "error"
        /\ outcome[1].exc.type = "ValueError"
        /\ (saveArgs.ip \in ValidAddrs /\ saveArgs.mac.groups = 6) =>
                outcome[1].exc.msg = "Device name already exists"

\* LAMP saved with a well-formed ip and mac where Lamp is registered
C9_Witness ==
    /\ ManualSave /\ DuplicateName
    /\ saveArgs.name \notin {config0[i].name : i \in DOMAIN config0}
    /\ saveArgs.ip \in ValidAddrs
    /\ saveArgs.mac.groups = 6
    /\ pc = "idle"

\* C10: every execute_command ends in exactly one reported outcome and no
\* exception leaves it; a failure is reported as an error, and success is
\* reported exactly when the dispatched operation returned without error.
C10_OneOutcome ==
    InExecute =>
        /\ escaped = NoExc
        /\ pc # "idle" => outcome = <<>>
        /\ pc = "idle" =>
            /\ Len(outcome) = 1
            /\ outcome[1].kind \in {"notfound", "error", "unexpected", "success"}
            /\ outcome[1].kind = "success" <=> OperationReturned
            /\ outcome[1].kind = "notfound" <=> key = NoMac
            /\ outcome[1].kind \in {"error", "unexpected"} => outcome[1].exc # NoExc

\* an error that is not a control error was reported
C10_Witness ==
    InExecute /\ pc = "idle" /\ Len(outcome) = 1 /\ outcome[1].kind = "unexpected"

\* the name given to execute_command matches no record of the registry the
\* command started from
UnknownName ==
    /\ InExecute
    /\ \A i \in DOMAIN config0 : ~SameNameIgnoringCase(config0[i].name, req.name)

\* C11: execute_command with a name that matches no registered record
\* (ignoring case) reports "not found" and returns without raising, without
\* building a handle or making any transport call, and without changing the
\* registry in memory or on file.
C11_UnknownNameNoEffect ==
    UnknownName =>
        /\ pc = "idle"
        /\ outcome = <<Report("notfound", NoExc)>>
        /\ escaped = NoExc
        /\ light = NoLight
        /\ func = "none"
        /\ log = <<>>
        /\ RegistryUnchanged

\* a command for Attic where other devices are registered
C11_Witness ==
    /\ UnknownName
    /\ config0 # <<>>
    /\ req.command = "on"
    /\ pc = "idle"

\* the read-backs of brightness that the verified brightness operation got:
\* positions of a get_color that returned inside a setBrightness command
BrightnessReads ==
    {j \in Positions("get_color") :
        req.command = "setBrightness" /\ log[j].res = "ok"}
\* the call of the operation that read-back j belongs to (invoke, set,
\* settle, get)
AttemptOf(j) == j - 3
Distance(a, b) == IF a < b THEN b - a ELSE a - b

\* C12: one attempt of the verified brightness operation succeeds exactly
\* when the read-back is within 100 of the requested level (30000 read back
\* as 30050 succeeds); otherwise the attempt fails as a transport error that
\* retry_command retries: a refresh follows and, unless it was the third
\* attempt, the next attempt is taken (30000 read back as 30150).
C12_BrightnessTolerance ==
    \A j \in BrightnessReads :
        LET level == req.args[1].v
            readback == log[j].arg[1]
            i == AttemptOf(j)
            n == log[i].arg[1]
        IN
        /\ log[i].kind = "invoke"
        /\ log[j - 2].kind = "set_brightness" /\ log[j - 2].arg = <<level>>
        /\ Distance(readback, level) <= 100 <=> log[i].res = "ok"
        /\ Distance(readback, level) > 100 <=> log[i].res = "WorkflowException"
        /\ log[i].res = "ok" =>
            /\ j = Len(log)
            /\ pc = "idle"
            /\ outcome = <<Report("success", NoExc)>>
        /\ log[i].res = "WorkflowException" =>
            /\ Len(log) > j /\ log[j + 1].kind = "refresh"
            /\ last_exception # NoExc
            /\ n < 3 =>
                \/ pc = "retry" /\ attempt = n
                \/ /\ Len(log) >= j + 3
                   /\ log[j + 2].kind = "sleep"
                   /\ log[j + 3].kind = "invoke" /\ log[j + 3].arg = <<n + 1>>
        /\ (level = 30000 /\ readback = 30050) => log[i].res = "ok"
        /\ (level = 30000 /\ readback = 30150) => log[i].res = "WorkflowException"

\* 30000 was read back as 30150, then as 29900 on the second attempt
C12_Witness ==
    \E j, k \in BrightnessReads :
        /\ j < k
        /\ req.args[1].v = 30000
        /\ log[j].arg = <<30150>>
        /\ log[k].arg = <<29900>>
        /\ log[AttemptOf(k)].arg = <<2>>
        /\ pc = "idle"

\* a MAC in canonical form: six groups, lower case, colon-separated
Canonical(m) == m.groups = 6 /\ ~m.upper /\ m.sep = ":"

\* C13: the id of every device record is a MAC address in canonical
\* lower-case colon-separated form; a device saved manually with a
\* hyphen-separated or upper-case MAC is stored under the lower-case
\* colon-separated key.
C13_CanonicalIds ==
    \A i \in DOMAIN config : Canonical(config[i].mac)

\* C14: every device record has a non-empty name: a manual save with an
\* empty name is rejected as a validation error and leaves the registry as
\* it was, and discovery adds no record without a name.
C14_NonEmptyNames ==
    /\ \A i \in DOMAIN config : config[i].name.base # ""
    /\ (ManualSave /\ saveArgs.name.base = "") =>
        /\ pc = "idle"
        /\ Len(outcome) = 1
        /\ outcome[1].kind = "error"
        /\ outcome[1].exc.type = "ValueError"
        /\ RegistryUnchanged

\* the self-healing step ran for the record with id m and left it at ip
HealedTo(m, ip) ==
    /\ InExecute /\ Rediscovered /\ MatchAt # {}
    /\ m = key
    /\ ip = NewAddr
\* a manual save was accepted for id m
AcceptedSaveOf(m) ==
    /\ ManualSave
    /\ m = [saveArgs.mac EXCEPT !.upper = FALSE]
    /\ saveArgs.ip \in ValidAddrs
    /\ saveArgs.mac.groups = 6
    /\ ~DuplicateName

\* C15 as claimed: no operation deletes a record or changes its name; a
\* record is mutated only in its address, and only by the self-healing path
\* of execute_command.
C15_OnlyHealingMutates ==
    \A i \in DOMAIN config0 :
        /\ i \in DOMAIN config
        /\ config[i].mac = config0[i].mac
        /\ config[i].name = config0[i].name
        /\ config[i].ip # config0[i].ip => HealedTo(config0[i].mac, config[i].ip)

\* C15 amended: no operation deletes a record from the map or changes its
\* id; a record's name changes only by an accepted manual save for the same
\* id, which overwrites name and address; otherwise its address changes only
\* by the self-healing step, which leaves its name and every other record
\* unchanged.
C15_RecordsKept ==
    \A i \in DOMAIN config0 :
        /\ i \in DOMAIN config
        /\ config[i].mac = config0[i].mac
        /\ config[i].name # config0[i].name =>
            /\ AcceptedSaveOf(config0[i].mac)
            /\ config[i].name = saveArgs.name
            /\ config[i].ip = saveArgs.ip
        /\ (config[i].ip # config0[i].ip /\ ~ManualSave) =>
            /\ HealedTo(config0[i].mac, config[i].ip)
            /\ config[i].name = config0[i].name
        /\ (config[i] # config0[i] /\ ManualSave) => AcceptedSaveOf(config0[i].mac)
        /\ (InExecute /\ config0[i].mac # key) => config[i] = config0[i]
        /\ (~InExecute /\ ~ManualSave) => config[i] = config0[i]

\* a command healed the address of one of two records
C15_Witness ==
    /\ Len(config0) = 2
    /\ \E i \in DOMAIN config0 : HealedTo(config0[i].mac, config[i].ip) /\ config[i] # config0[i]
    /\ pc = "idle"

\* the desired state of an on / off command: is the light to be on
PowerCommand == InExecute /\ req.command \in {"on", "off"}
DesiredOn == req.command = "on"
SetPowers == Positions("set_power")
\* the read-backs of power that returned
PowerReads == {j \in Positions("get_power") : log[j].res = "ok"}
ReportsDesired(j) == (log[j].arg[1] # 0) <=> DesiredOn

\* C16: in the verified power operation every attempt issues set-power and
\* then reads power back; a read-back whose truth value differs from the
\* desired state fails the attempt as a retried transport error; a device
\* that never reports the desired state receives set-power exactly 3 times
\* before the command ends in a control error, and one that reports it on
\* attempt n receives set-power exactly n times.
C16_PowerRetriedAsUnit ==
    PowerCommand =>
        LET calls == Invokes
            sets == SetPowers
            reads == PowerReads
        IN
        /\ \A i \in calls :
            /\ Len(log) > i
            /\ log[i + 1].kind = "set_power"
            /\ log[i + 1].arg = <<IF DesiredOn THEN 1 ELSE 0>>
            /\ log[i + 1].res = "ok" =>
                /\ Len(log) >= i + 3
                /\ log[i + 2].kind = "settle"
                /\ log[i + 3].kind = "get_power"
                /\ log[i + 3].res = "ok" =>
                    /\ ReportsDesired(i + 3) <=> log[i].res = "ok"
                    /\ ~ReportsDesired(i + 3) <=> log[i].res = "WorkflowException"
        /\ \A j \in sets : log[j - 1].kind = "invoke"
        /\ \A j \in reads : j > 3 /\ log[j - 3].kind = "invoke"
        /\ Cardinality(sets) = Cardinality(calls)
        /\ \A j \in reads :
            ReportsDesired(j) =>
                /\ pc = "idle"
                /\ j = Len(log)
                /\ outcome = <<Report("success", NoExc)>>
                /\ Cardinality(sets) = log[j - 3].arg[1]
        /\ (pc = "idle" /\ calls # {}
              /\ \A i \in calls : i + 3 \in reads /\ ~ReportsDesired(i + 3)) =>
            /\ Cardinality(sets) = 3
            /\ Len(outcome) = 1
            /\ outcome[1].kind = "error"
            /\ outcome[1].exc.type = "LifxControlError"

\* on was sent three times to a device that kept reporting off
C16_Witness ==
    /\ PowerCommand /\ DesiredOn
    /\ pc = "idle"
    /\ Cardinality(SetPowers) = 3
    /\ \A i \in Invokes : i + 3 \in PowerReads /\ log[i + 3].arg = <<0>>

Refreshes == Positions("refresh")
\* the call of the operation that log position j belongs to
InvokeBefore(j) ==
    CHOOSE i \in 1..(j - 1) :
        log[i].kind = "invoke" /\ \A k \in (i + 1)..(j - 1) : log[k].kind # "invoke"

\* C17: after each attempt that fails with a transport error the handle is
\* refreshed exactly once, and whatever the refresh does, retry_command goes
\* on as if it had succeeded: the next attempt with its sleep follows, or
\* after the third attempt the control error for exhausted retries.
C17_RefreshSwallowed ==
    LET failed == TransportFailures
        refreshed == Refreshes
    IN
    /\ Cardinality(refreshed) = Cardinality(failed)
    /\ \A r \in refreshed :
        /\ \E i \in 1..(r - 1) : log[i].kind = "invoke"
        /\ LET b == InvokeBefore(r) IN
           /\ log[b].res = "WorkflowException"
           /\ log[r].ip = light.ip
           /\ log[r - 1].kind # "refresh"
           /\ r < Len(log) =>
               /\ log[r + 1].kind = "sleep"
               /\ Len(log) >= r + 2
               /\ log[r + 2].kind = "invoke"
               /\ log[r + 2].arg = <<log[b].arg[1] + 1>>
           /\ r = Len(log) =>
               /\ escaped = NoExc
               /\ \/ /\ pc = "retry"
                     /\ attempt = log[b].arg[1]
                     /\ outcome = <<>>
                  \/ /\ pc = "idle"
                     /\ log[b].arg = <<3>>
                     /\ outcome =
                           <<Report("error",
                                    ControlError("Failed after 3 attempts",
                                                 last_exception.msg))>>
    /\ \A i \in failed :
        \E r \in refreshed : i = InvokeBefore(r)

\* status returned on the second attempt, after one refresh
C17_Witness ==
    /\ req.command = "status"
    /\ Cardinality(Refreshes) = 1
    /\ Cardinality(Invokes) = 2
    /\ pc = "idle"
    /\ retval # None

StatusCommand == InExecute /\ req.command = "status"

\* C18: a status command issues no set-power, set-brightness or set-color
\* call, whatever retries it takes; its only transport calls are the probe,
\* at most one rediscovery, get-power, get-color and the refresh, and
\* get-power and get-color are repeated only after a transport error.
C18_StatusReadsOnly ==
    StatusCommand =>
        LET calls == Invokes
            powers == Positions("get_power")
            colors == Positions("get_color")
        IN
        /\ \A i \in DOMAIN log :
            /\ log[i].kind \notin {"set_power", "set_brightness", "set_color"}
            /\ log[i].kind \in
                {"get_label", "get_lights", "get_power", "get_color", "refresh",
                 "invoke", "sleep"}
        /\ Positions("get_label") \subseteq {1}
        /\ Positions("get_lights") \subseteq {2}
        /\ \A i \in calls :
            /\ log[i].arg[1] > 1 =>
                \E k \in calls :
                    /\ k < i
                    /\ log[k].arg[1] = log[i].arg[1] - 1
                    /\ log[k].res = "WorkflowException"
            /\ i + 1 \in powers
            /\ \A j \in colors : InvokeBefore(j) = i => j = i + 2
        /\ \A j \in powers : log[j - 1].kind = "invoke"
        /\ \A j \in colors : log[j - 1].kind = "get_power"
        /\ Cardinality(powers) = Cardinality(calls)
        /\ Cardinality(powers) <= 1 + Cardinality(TransportFailures)

\* status on a rediscovered device, answered on the third attempt
C18_Witness ==
    /\ StatusCommand
    /\ Positions("get_lights") # {}
    /\ Cardinality(Positions("get_power")) = 3
    /\ pc = "idle"
    /\ OperationReturned

\* a discovery run whose get_lights returned runs or was the last operation
DiscoveryRun ==
    /\ ~InExecute
    /\ Len(log) >= 1
    /\ log[1].kind = "get_lights"
    /\ log[1].res = "ok"
Prompts == Positions("prompt")
PromptedIds == {log[p].arg[1] : p \in Prompts}
\* the name a prompt's answer gives: its text without surrounding blanks
Typed(p) == [log[p].arg[2] EXCEPT !.pad = FALSE]

\* C19: a discovery run only adds records: a record whose id was registered
\* keeps its name and address, even when the device is found at another
\* address, and no prompt is issued for it; a record is added only for a
\* newly seen id whose prompt was answered with a non-empty name; the map
\* is written to the file once, after the loop.
C19_DiscoveryOnlyAdds ==
    DiscoveryRun =>
        /\ \A i \in DOMAIN config0 : i \in DOMAIN config /\ config[i] = config0[i]
        /\ \A p \in Prompts :
            /\ log[p].arg[1] \notin {config0[i].mac : i \in DOMAIN config0}
            /\ \E k \in DOMAIN devices :
                devices[k].mac = log[p].arg[1] /\ devices[k].ip = log[p].ip
            /\ Typed(p).base = "" =>
                \A i \in DOMAIN config : config[i].mac # log[p].arg[1]
            /\ Typed(p).base # "" =>
                \E i \in DOMAIN config :
                    config[i] = [mac |-> log[p].arg[1], name |-> Typed(p), ip |-> log[p].ip]
        /\ \A k \in DOMAIN devices :
            devices[k].mac \notin {config0[i].mac : i \in DOMAIN config0}
                => devices[k].mac \in PromptedIds
        /\ \A i \in DOMAIN config :
            i \notin DOMAIN config0 =>
                /\ config[i].mac \in PromptedIds
                /\ config[i].name.base # ""
        /\ pc = "save_open" => file = file0
        /\ (pc = "idle" /\ outcome = <<Report("discovered", NoExc)>>) => file = Snapshot(config)
        /\ pc = "idle" => Len(outcome) = 1

\* both registered devices were found at each other's address
C19_Witness ==
    /\ DiscoveryRun
    /\ Len(config0) = 2
    /\ Len(devices) = 2
    /\ \A i \in DOMAIN config0 :
        \E k \in DOMAIN devices :
            devices[k].mac = config0[i].mac /\ devices[k].ip # config0[i].ip
    /\ pc = "idle"
    /\ file = Snapshot(config)

\* C20: no out-of-range value reaches the transport through
\* execute_command: every set-brightness call carries a level in 0..65535,
\* every set-color call carries hue, saturation and brightness in 0..65535
\* and kelvin in 2500..9000; when an argument is out of range, missing or
\* not an integer, no set-brightness or set-color call is issued and a
\* control error is reported.
C20_RangeSafety ==
    InExecute =>
        /\ \A i \in Positions("set_brightness") :
            /\ Len(log[i].arg) = 1
            /\ log[i].arg[1] \in 0..65535
        /\ \A i \in Positions("set_color") :
            /\ Len(log[i].arg) = 4
            /\ \A k \in 1..3 : log[i].arg[k] \in 0..65535
            /\ log[i].arg[4] \in 2500..9000
        /\ (key # NoMac /\ ContractViolated(req)) =>
            /\ Positions("set_brightness") = {}
            /\ Positions("set_color") = {}
            /\ pc = "idle" =>
                /\ Len(outcome) = 1
                /\ outcome[1].kind = "error"
                /\ outcome[1].exc.type = "LifxControlError"

====
